---- MODULE Spec2Model ----
\* mcpe_motd: one RakNet unconnected ping / pong exchange and the decoding of
\* the pong (src/src/lib.rs, fetch_unconected_pong).
\*
\* Representation.
\*   - a byte is an integer 0..255; a datagram is a sequence of bytes;
\*   - a Rust String is the sequence of its Unicode scalar values;
\*   - an i64 is kept as its 8-byte two's complement pattern, most significant
\*     byte first (TLC integers are 32 bits wide), with I64IsNegative and
\*     I64ToInt reading it back;
\*   - a usize is kept as [wrapped, lo]: the value lo when ~wrapped, the value
\*     2^64 + lo (lo < 0) when wrapped;
\*   - a panic of the Rust runtime is a result of kind "Panic".
EXTENDS Integers, Sequences, FiniteSets, TLC

\* ---------------------------------------------------------------- bounds

\* Largest number of ';'-separated tokens put in a generated status string.
MaxTokens == 13

\* ------------------------------------------------------------- characters

\* The ASCII letters and digits, in code order.
Digits == << "0", "1", "2", "3", "4", "5", "6", "7", "8", "9" >>
Upper ==
    << "A", "B", "C", "D", "E", "F", "G", "H", "I", "J", "K", "L", "M",
       "N", "O", "P", "Q", "R", "S", "T", "U", "V", "W", "X", "Y", "Z" >>
Lower ==
    << "a", "b", "c", "d", "e", "f", "g", "h", "i", "j", "k", "l", "m",
       "n", "o", "p", "q", "r", "s", "t", "u", "v", "w", "x", "y", "z" >>

IndexIn(seq, c) == CHOOSE i \in 1..Len(seq) : seq[i] = c
Occurs(seq, c) == \E i \in 1..Len(seq) : seq[i] = c

\* The ASCII code of a character of the texts used here.
Ord(c) ==
    CASE Occurs(Digits, c) -> 47 + IndexIn(Digits, c)
      [] Occurs(Upper, c) -> 64 + IndexIn(Upper, c)
      [] Occurs(Lower, c) -> 96 + IndexIn(Lower, c)
      [] c = " " -> 32
      [] c = "+" -> 43
      [] c = "-" -> 45
      [] c = "." -> 46
      [] c = ";" -> 59

\* The bytes (equally: the scalar values) of a text given character by character.
Str(cs) == [i \in 1..Len(cs) |-> Ord(cs[i])]

Semicolon == Ord(";")
PlusSign == Ord("+")
MinusSign == Ord("-")
Digit0 == Ord("0")
Digit9 == Ord("9")

\* U+FFFD REPLACEMENT CHARACTER, what from_utf8_lossy puts for invalid bytes.
ReplacementChar == 65533

\* ------------------------------------------------------------ error codes

CantBind == "CantBind"
CantSendTo == "CantSendTo"
ServerIdStringTooSmall == "ServerIdStringTooSmall"
CantParseProtocolVersion == "CantParseProtocolVersion"
CantParsePlayerCount == "CantParsePlayerCount"
CantParsePlayerMaxCount == "CantParsePlayerMaxCount"
CantParseGameModeNum == "CantParseGameModeNum"
CantParsePort4 == "CantParsePort4"
CantParsePort6 == "CantParsePort6"

MotdErrorCode ==
    { CantBind, CantSendTo, ServerIdStringTooSmall, CantParseProtocolVersion,
      CantParsePlayerCount, CantParsePlayerMaxCount, CantParseGameModeNum,
      CantParsePort4, CantParsePort6 }

\* ------------------------------------------------------------- constants

\* const MAGIC: [u8; 16]
MAGIC == << 0, 255, 255, 0, 254, 254, 254, 254, 253, 253, 253, 253, 18, 52, 86, 120 >>

RequestPacketTimeLowByteZero ==
    << 1,  0, 0, 0, 0, 0, 0, 0, 0,
       0, 255, 255, 0, 254, 254, 254, 254, 253, 253, 253, 253, 18, 52, 86, 120,
       0, 0, 0, 0, 0, 0, 0, 0 >>

\* let buf: &[u8] = &[ID, Time x 8, MAGIC x 16, Client GUID x 8]
RequestPacket ==
    << 1,  0, 0, 0, 0, 0, 0, 0, 16,
       0, 255, 255, 0, 254, 254, 254, 254, 253, 253, 253, 253, 18, 52, 86, 120,
       0, 0, 0, 0, 0, 0, 0, 0 >>

\* let mut response: [u8; 1024]
ResponseBufferLen == 1024

\* Offset of the server id string in the pong: response[35..]
ServerIdStringOffset == 35

\* The ranges of the integer types the fields are parsed to.
I16Min == -32768
I16Max == 32767
I32Min == -2147483647 - 1
I32Max == 2147483647
U8Max == 255
U16Max == 65535

I16Type == [signed |-> TRUE, min |-> I16Min, max |-> I16Max]
I32Type == [signed |-> TRUE, min |-> I32Min, max |-> I32Max]
U8Type == [signed |-> FALSE, min |-> 0, max |-> U8Max]
U16Type == [signed |-> FALSE, min |-> 0, max |-> U16Max]

\* The values substituted for absent optional fields.
DefaultPlayerCount == -1
DefaultMaxPlayerCount == -1
DefaultGamemode == Str(<< "S", "u", "r", "v", "i", "v", "a", "l" >>)
DefaultGamemodeNumeric == 0
DefaultPort == 19132

\* ------------------------------------------------- fixed-width integers

RECURSIVE ByteOr(_, _)
\* x | y on two bytes (on any two naturals).
ByteOr(x, y) ==
    IF x = 0 THEN y
    ELSE IF y = 0 THEN x
    ELSE (IF x % 2 = 1 \/ y % 2 = 1 THEN 1 ELSE 0) + 2 * ByteOr(x \div 2, y \div 2)

\* `b as i64` / `b as i16` for a u8 b: zero-extension to a word of n bytes.
ZeroExtend(b, n) == [i \in 1..n |-> IF i = n THEN b ELSE 0]

\* w << bits on a word of Len(w) bytes (bits a multiple of 8, below the width):
\* the bytes move up and the ones shifted out are dropped.
Shl(w, bits) ==
    [i \in 1..Len(w) |-> IF i + (bits \div 8) <= Len(w) THEN w[i + (bits \div 8)] ELSE 0]

\* a | b on two words of the same width.
WordOr(a, b) == [i \in 1..Len(a) |-> ByteOr(a[i], b[i])]

\* The value of a 2-byte pattern read as an i16.
I16ToInt(w) ==
    IF w[1] >= 128 THEN w[1] * 256 + w[2] - 65536 ELSE w[1] * 256 + w[2]

\* Whether an 8-byte pattern read as an i64 is negative.
I64IsNegative(w) == w[1] >= 128

\* The value of an i64 pattern whose value fits 24 bits (bytes 0..4 all 00 or all FF).
I64ToInt(w) ==
    IF w[1] = 0
    THEN w[6] * 65536 + w[7] * 256 + w[8]
    ELSE w[6] * 65536 + w[7] * 256 + w[8] - 16777216

\* `v as usize` for an i16 v: sign extension to 64 bits, so a negative v
\* becomes 2^64 + v.
I16AsUsize(v) == [wrapped |-> v < 0, lo |-> v]

\* ------------------------------------------------------------ text decoding

RECURSIVE Utf8Lossy(_)
\* String::from_utf8_lossy on bytes that are ASCII or 0xF8..0xFF. A byte
\* 0xF8..0xFF starts no UTF-8 sequence and is replaced, alone, by U+FFFD.
Utf8Lossy(bytes) ==
    IF bytes = << >> THEN << >>
    ELSE << (IF Head(bytes) < 128 THEN Head(bytes) ELSE ReplacementChar) >>
         \o Utf8Lossy(Tail(bytes))

RECURSIVE SplitOn(_, _, _)
\* str.split(";"): the pieces between the separators, empty pieces included;
\* cur is the piece being read.
SplitOn(s, sep, cur) ==
    IF s = << >> THEN << cur >>
    ELSE IF Head(s) = sep THEN << cur >> \o SplitOn(Tail(s), sep, << >>)
    ELSE SplitOn(Tail(s), sep, Append(cur, Head(s)))

NonEmptyPiece(piece) == piece # << >>

SplitKeepingEmpty(s) == SplitOn(s, Semicolon, << >>)

\* server_id_string.split(";").filter(|s| *s != "").collect()
SplitServerIdString(s) == SelectSeq(SplitOn(s, Semicolon, << >>), NonEmptyPiece)

\* ---------------------------------------------------------------- str::parse

IsDigit(c) == c >= Digit0 /\ c <= Digit9

RECURSIVE ParseDigits(_, _, _, _)
\* The digit loop of from_str_radix(10): acc * 10 + d for a positive number,
\* acc * 10 - d for a negative one, each step checked against the type's range.
ParseDigits(ds, acc, positive, ty) ==
    IF ds = << >> THEN [ok |-> TRUE, v |-> acc]
    ELSE IF ~IsDigit(Head(ds)) THEN [ok |-> FALSE, v |-> 0]
    ELSE LET d == Head(ds) - Digit0
         IN IF positive
            THEN IF acc > (ty.max - d) \div 10
                 THEN [ok |-> FALSE, v |-> 0]
                 ELSE ParseDigits(Tail(ds), acc * 10 + d, positive, ty)
            ELSE IF acc < (ty.min + d + 9) \div 10
                 THEN [ok |-> FALSE, v |-> 0]
                 ELSE ParseDigits(Tail(ds), acc * 10 - d, positive, ty)

ParseIntClamping(s, ty) ==
    IF s = << >> \/ \E i \in 1..Len(s) : ~IsDigit(s[i]) THEN [ok |-> FALSE, v |-> 0]
    ELSE LET r == ParseDigits(s, 0, TRUE, ty)
         IN IF r.ok THEN r ELSE [ok |-> TRUE, v |-> ty.max]

\* s.parse::<T>() for an integer type T: an optional sign ('-' for signed types
\* only), then at least one decimal digit, the value within the range of T.
ParseInt(s, ty) ==
    IF s = << >> THEN [ok |-> FALSE, v |-> 0]
    ELSE IF Len(s) = 1 /\ Head(s) \in { PlusSign, MinusSign } THEN [ok |-> FALSE, v |-> 0]
    ELSE IF Head(s) = PlusSign THEN ParseDigits(Tail(s), 0, TRUE, ty)
    ELSE IF Head(s) = MinusSign /\ ty.signed THEN ParseDigits(Tail(s), 0, FALSE, ty)
    ELSE ParseDigits(s, 0, TRUE, ty)

\* ------------------------------------------------- server id string fields

\* What evaluating one field initialiser of ServerIdStringParsed gives: a
\* value taken from the token, a default (which may clear
\* server_id_string_parsed_ok), or an early return with an error code.
FromToken(v) == [st |-> "value", v |-> v, code |-> "", clears_ok |-> FALSE]
Defaulted(v, clears) == [st |-> "default", v |-> v, code |-> "", clears_ok |-> clears]
EarlyReturn(code) == [st |-> "error", v |-> 0, code |-> code, clears_ok |-> FALSE]

\* A present numeric token: its value, or the early return with the field's code.
ParsedOrReturn(token, ty, code) ==
    LET r == ParseInt(token, ty)
    IN IF r.ok THEN FromToken(r.v) ELSE EarlyReturn(code)

\* The tokens are split_server_id_string, 1-based here: Rust's [k] is [k + 1].
edition(tokens) == FromToken(tokens[1])

motd(tokens) == FromToken(tokens[2])

protocol_version(tokens) == ParsedOrReturn(tokens[3], I16Type, CantParseProtocolVersion)

version_name(tokens) == FromToken(tokens[4])

player_count_lenient(tokens) ==
    IF Len(tokens) >= 5 /\ ParseInt(tokens[5], I32Type).ok
    THEN FromToken(ParseInt(tokens[5], I32Type).v)
    ELSE Defaulted(DefaultPlayerCount, TRUE)

player_count(tokens) ==
    IF Len(tokens) >= 5
    THEN ParsedOrReturn(tokens[5], I32Type, CantParsePlayerCount)
    ELSE Defaulted(DefaultPlayerCount, TRUE)

max_player_count(tokens) ==
    IF Len(tokens) >= 6
    THEN ParsedOrReturn(tokens[6], I32Type, CantParsePlayerMaxCount)
    ELSE Defaulted(DefaultMaxPlayerCount, TRUE)

server_unique_id(tokens) ==
    IF Len(tokens) >= 7 THEN FromToken(tokens[7]) ELSE Defaulted(<< >>, FALSE)

level_name(tokens) ==
    IF Len(tokens) >= 8 THEN FromToken(tokens[8]) ELSE Defaulted(<< >>, FALSE)

gamemode(tokens) ==
    IF Len(tokens) >= 9 THEN FromToken(tokens[9]) ELSE Defaulted(DefaultGamemode, FALSE)

gamemode_numeric(tokens) ==
    IF Len(tokens) >= 10
    THEN ParsedOrReturn(tokens[10], U8Type, CantParseGameModeNum)
    ELSE Defaulted(DefaultGamemodeNumeric, TRUE)

port_v4_default_off_by_one(tokens) ==
    IF Len(tokens) >= 11
    THEN ParsedOrReturn(tokens[11], U16Type, CantParsePort4)
    ELSE Defaulted(DefaultPort + 1, TRUE)

port_v4(tokens) ==
    IF Len(tokens) >= 11
    THEN ParsedOrReturn(tokens[11], U16Type, CantParsePort4)
    ELSE Defaulted(DefaultPort, TRUE)

port_v6_keeping_ok(tokens) ==
    IF Len(tokens) >= 12
    THEN ParsedOrReturn(tokens[12], U16Type, CantParsePort6)
    ELSE Defaulted(DefaultPort, FALSE)

port_v6(tokens) ==
    IF Len(tokens) >= 12
    THEN ParsedOrReturn(tokens[12], U16Type, CantParsePort6)
    ELSE Defaulted(DefaultPort, TRUE)

\* The field initialisers in the order the struct expression evaluates them.
FieldsInOrder(tokens) ==
    << edition(tokens), motd(tokens), protocol_version(tokens), version_name(tokens),
       player_count(tokens), max_player_count(tokens), server_unique_id(tokens),
       level_name(tokens), gamemode(tokens), gamemode_numeric(tokens),
       port_v4(tokens), port_v6(tokens) >>

\* ------------------------------------------------------------------ results

NoServerIdString ==
    [ edition |-> << >>, motd |-> << >>, protocol_version |-> 0, version_name |-> << >>,
      player_count |-> 0, max_player_count |-> 0, server_unique_id |-> << >>,
      level_name |-> << >>, gamemode |-> << >>, gamemode_numeric |-> 0,
      port_v4 |-> 0, port_v6 |-> 0 ]

NoPong ==
    [ id |-> 0, time_since_start |-> << >>, server_guid |-> << >>, magic |-> << >>,
      server_id_string_len |-> 0, server_id_string_raw |-> << >>,
      server_id_string_parsed_ok |-> FALSE, server_id_string_parsed |-> NoServerIdString ]

NoResult == [kind |-> "None", code |-> "", panic |-> "", pong |-> NoPong]
Ok(pong) == [kind |-> "Ok", code |-> "", panic |-> "", pong |-> pong]
Err(code) == [kind |-> "Err", code |-> code, panic |-> "", pong |-> NoPong]
Panic(what) == [kind |-> "Panic", code |-> "", panic |-> what, pong |-> NoPong]

\* -------------------------------------------------------------- the decoder

\* response[k] of the code is response[k + 1] here.
At(response, k) == response[k + 1]

\* (response[lsb] as i64) | (response[lsb - 1] as i64) << 8 | ... |
\* (response[lsb - 7] as i64) << 56
ReadI64(response, lsb) ==
    LET term(j) == Shl(ZeroExtend(At(response, lsb - j), 8), 8 * j)
    IN WordOr(WordOr(WordOr(WordOr(WordOr(WordOr(WordOr(
           term(0), term(1)), term(2)), term(3)), term(4)), term(5)), term(6)), term(7))

ReadI64LittleEndian(response, lsb) ==
    LET term(j) == Shl(ZeroExtend(At(response, lsb - 7 + j), 8), 8 * j)
    IN WordOr(WordOr(WordOr(WordOr(WordOr(WordOr(WordOr(
           term(0), term(1)), term(2)), term(3)), term(4)), term(5)), term(6)), term(7))

time_since_start_little_endian(response) == ReadI64LittleEndian(response, 8)

time_since_start(response) == ReadI64(response, 8)

server_guid(response) == ReadI64(response, 16)

\* (response[34] as i16) | (response[33] as i16) << 8
server_id_string_len(response) ==
    I16ToInt(WordOr(ZeroExtend(At(response, 34), 2), Shl(ZeroExtend(At(response, 33), 2), 8)))

\* The indices of response the fixed-layout part reads, in evaluation order.
HeaderReadOrder ==
    << 0, 8, 7, 6, 5, 4, 3, 2, 1, 16, 15, 14, 13, 12, 11, 10, 9, 34, 33 >>

\* The first index read that is not below the received size (a bounds-check
\* panic), or -1 when every read is in bounds.
FirstOutOfBounds(size) ==
    IF \E i \in 1..Len(HeaderReadOrder) : HeaderReadOrder[i] >= size
    THEN HeaderReadOrder[CHOOSE i \in 1..Len(HeaderReadOrder) :
                             /\ HeaderReadOrder[i] >= size
                             /\ \A j \in 1..(i - 1) : HeaderReadOrder[j] < size]
    ELSE -1

\* 35 + server_id_string_len as usize. The sum passes 2^64 exactly when the
\* length is in -35..-1: a panic with overflow checks, a wrap to 35 + len without.
SliceEnd(len, overflow_checks) ==
    LET n == I16AsUsize(len)
    IN IF ~n.wrapped THEN [overflow |-> FALSE, wrapped |-> FALSE, lo |-> ServerIdStringOffset + n.lo]
       ELSE IF n.lo + ServerIdStringOffset >= 0
            THEN [overflow |-> overflow_checks, wrapped |-> FALSE, lo |-> n.lo + ServerIdStringOffset]
            ELSE [overflow |-> FALSE, wrapped |-> TRUE, lo |-> n.lo + ServerIdStringOffset]

\* &response[35..end]: the panic of the slice's bounds check, or "" when the
\* range lies within the received bytes.
SlicePanic(end, size) ==
    IF end.overflow THEN "attempt to add with overflow"
    ELSE IF ~end.wrapped /\ ServerIdStringOffset > end.lo THEN "slice index starts after its end"
    ELSE IF end.wrapped \/ end.lo > size THEN "range end index out of range for slice"
    ELSE ""

\* The struct ServerIdStringParsed built from the fields' values.
ServerIdStringParsed(f) ==
    [ edition |-> f[1].v, motd |-> f[2].v, protocol_version |-> f[3].v,
      version_name |-> f[4].v, player_count |-> f[5].v, max_player_count |-> f[6].v,
      server_unique_id |-> f[7].v, level_name |-> f[8].v, gamemode |-> f[9].v,
      gamemode_numeric |-> f[10].v, port_v4 |-> f[11].v, port_v6 |-> f[12].v ]

\* if split_server_id_string_size < 4
TooFewTokens(n) == n < 4

\* Everything fetch_unconected_pong does with the received bytes.
Decode(response, overflow_checks) ==
    LET size == Len(response)
        oob == FirstOutOfBounds(size)
    IN IF oob >= 0 THEN Panic("index out of bounds")
       ELSE
       LET len == server_id_string_len(response)
           end == SliceEnd(len, overflow_checks)
           bad == SlicePanic(end, size)
       IN IF bad # "" THEN Panic(bad)
          ELSE
          LET raw == Utf8Lossy(SubSeq(response, ServerIdStringOffset + 1, end.lo))
              tokens == SplitServerIdString(raw)
          IN IF TooFewTokens(Len(tokens)) THEN Err(ServerIdStringTooSmall)
             ELSE
             LET f == FieldsInOrder(tokens)
                 failed == { i \in 1..Len(f) : f[i].st = "error" }
             IN IF failed # {}
                THEN Err(f[CHOOSE i \in failed : \A j \in failed : i <= j].code)
                ELSE Ok([ id |-> At(response, 0),
                          time_since_start |-> time_since_start(response),
                          server_guid |-> server_guid(response),
                          magic |-> MAGIC,
                          server_id_string_len |-> len,
                          server_id_string_raw |-> raw,
                          server_id_string_parsed_ok |-> \A i \in 1..Len(f) : ~f[i].clears_ok,
                          server_id_string_parsed |-> ServerIdStringParsed(f) ])

\* ------------------------------------------------------- replies considered

\* The fixed-layout part of a pong, bytes 0..32: id, time, guid, magic.
PongHeader(id, time, guid, magic) == << id >> \o time \o guid \o magic

Headers ==
    { PongHeader(28, << 0, 0, 0, 0, 0, 0, 1, 0 >>,
                 << 255, 255, 255, 255, 255, 255, 255, 255 >>, MAGIC),
      PongHeader(0, << 128, 0, 0, 0, 0, 0, 0, 0 >>,
                 << 1, 2, 3, 4, 5, 6, 7, 8 >>,
                 << 0, 0, 0, 0, 0, 0, 0, 0, 0, 0, 0, 0, 0, 0, 0, 0 >>),
      PongHeader(28, << 255, 255, 255, 255, 255, 255, 254, 12 >>,
                 << 127, 255, 255, 255, 255, 255, 255, 255 >>,
                 << 0, 255, 255, 0, 254, 254, 254, 254, 253, 253, 253, 253, 18, 52, 86, 121 >>) }

UsualHeader ==
    PongHeader(28, << 0, 0, 0, 0, 0, 0, 1, 0 >>,
               << 255, 255, 255, 255, 255, 255, 255, 255 >>, MAGIC)

\* The two bytes of a declared length, big-endian two's complement.
LenBytes(v) ==
    LET u == IF v < 0 THEN v + 65536 ELSE v
    IN << u \div 256, u % 256 >>

\* The texts a server may put at each position of the server id string.
TokenChoices(i) ==
    CASE i = 1 -> { Str(<< "M", "C", "P", "E" >>) }
      [] i = 2 -> { Str(<< "M", "y", " ", "S", "e", "r", "v", "e", "r" >>) }
      [] i = 3 -> { Str(<< "6", "1", "8" >>), Str(<< "a", "b", "c" >>),
                    Str(<< "3", "2", "7", "6", "8" >>),
                    Str(<< "-", "3", "2", "7", "6", "8" >>),
                    Str(<< "-", "3", "2", "7", "6", "9" >>) }
      [] i = 4 -> { Str(<< "1", ".", "2", "0", ".", "4", "0" >>) }
      [] i = 5 -> { Str(<< "5" >>), Str(<< "x" >>),
                    Str(<< "2", "1", "4", "7", "4", "8", "3", "6", "4", "8" >>),
                    Str(<< "-", "2", "1", "4", "7", "4", "8", "3", "6", "4", "8" >>) }
      [] i = 6 -> { Str(<< "2", "0" >>), Str(<< "2", "x" >>), Str(<< "-" >>) }
      [] i = 7 -> { Str(<< "1", "2", "3", "4", "5" >>) }
      [] i = 8 -> { Str(<< "w", "o", "r", "l", "d" >>) }
      [] i = 9 -> { Str(<< "C", "r", "e", "a", "t", "i", "v", "e" >>) }
      [] i = 10 -> { Str(<< "1" >>), Str(<< "2", "5", "6" >>), Str(<< "-", "1" >>) }
      [] i = 11 -> { Str(<< "6", "5", "5", "3", "5" >>), Str(<< "6", "5", "5", "3", "6" >>),
                     Str(<< "p" >>) }
      [] i = 12 -> { Str(<< "1", "9", "1", "3", "3" >>), Str(<< "+", "7" >>),
                     Str(<< "-", "0" >>) }
      [] OTHER -> { Str(<< "e", "x", "t", "r", "a" >>) }

RECURSIVE TokenSeqs(_)
\* The sequences of n tokens, one of the choices at each position.
TokenSeqs(n) ==
    IF n = 0 THEN { << >> }
    ELSE { Append(ts, t) : ts \in TokenSeqs(n - 1), t \in TokenChoices(n) }

RECURSIVE Join(_, _)
\* The tokens with sep between them.
Join(ts, sep) ==
    IF ts = << >> THEN << >>
    ELSE IF Len(ts) = 1 THEN ts[1]
    ELSE ts[1] \o sep \o Join(Tail(ts), sep)

\* The server id strings: tokens joined by ";", or joined by ";;" with a
\* leading and a trailing ";" (empty tokens at both ends and in between).
ServerIdStrings ==
    UNION { { Join(ts, << Semicolon >>),
              << Semicolon >> \o Join(ts, << Semicolon, Semicolon >>) \o << Semicolon >> }
            : ts \in UNION { TokenSeqs(n) : n \in 0..MaxTokens } }

\* A few server id strings sent under every header and declared length.
FixtureStrings ==
    { << >>,
      Str(<< "a", ";", ";", "b", ";", "c" >>),
      Str(<< "M", "C", "P", "E", ";", "x", ";", "a", "b", "c", ";", "1", ".", "0" >>),
      Str(<< "M", "C", "P", "E", ";" >>) \o << 255, Ord("x"), Semicolon >>
          \o Str(<< "6", "1", "8", ";", "1", ".", "2", "0", ".", "4", "0" >>),
      Str(<< "M", "C", "P", "E", ";", "M", "y", " ", "S", "e", "r", "v", "e", "r", ";",
             "6", "1", "8", ";", "1", ".", "2", "0", ".", "4", "0", ";", "5", ";", "2", "0" >>) }

\* The lengths a pong may declare for a string of n bytes: right, short, long,
\* negative.
DeclaredLens(n) ==
    { n, n + 1, 32767, -1, -35, -36, -32768 } \cup (IF n > 0 THEN { n - 1 } ELSE {})

Pong(header, len, str) == header \o LenBytes(len) \o str

\* A pong whose string is longer than the receive buffer holds.
LongString == [i \in 1..1000 |-> Ord("a")]

Datagrams ==
    { Pong(UsualHeader, Len(str), str) : str \in ServerIdStrings }
    \cup UNION { UNION { { Pong(h, len, str) : len \in DeclaredLens(Len(str)) }
                         : str \in FixtureStrings } : h \in Headers }
    \cup { SubSeq(Pong(UsualHeader, 4, Str(<< "M", "C", "P", "E" >>)), 1, n) : n \in 0..34 }
    \cup { Pong(UsualHeader, Len(LongString), LongString) }

\* ------------------------------------------------------------ the exchange

VARIABLES
    pc,                      \* where fetch_unconected_pong is: bind, send, recv, done
    overflow_checks,         \* whether the build panics on integer overflow
    bind_failed,             \* UdpSocket::bind returned Err
    sent,                    \* the datagrams handed to send_to, in order
    recv_calls,              \* how many times recv_from was called
    response,                \* &response[..size], the bytes received
    split_server_id_string,  \* the non-empty tokens of the server id string
    result                   \* what the call returned, or how it panicked

vars ==
    << pc, overflow_checks, bind_failed, sent, recv_calls, response,
       split_server_id_string, result >>

Init ==
    /\ pc = "bind"
    /\ overflow_checks \in BOOLEAN
    /\ bind_failed = FALSE
    /\ sent = << >>
    /\ recv_calls = 0
    /\ response = << >>
    /\ split_server_id_string = << >>
    /\ result = NoResult

\* The code returned when UdpSocket::bind fails.
BindFailureCode == CantSendTo

\* UdpSocket::bind("0.0.0.0:0") succeeds.
BindOk ==
    /\ pc = "bind"
    /\ pc' = "send"
    /\ UNCHANGED << overflow_checks, bind_failed, sent, recv_calls, response,
                    split_server_id_string, result >>

\* UdpSocket::bind("0.0.0.0:0") fails: the call returns.
BindErr ==
    /\ pc = "bind"
    /\ bind_failed' = TRUE
    /\ result' = Err(BindFailureCode)
    /\ pc' = "done"
    /\ UNCHANGED << overflow_checks, sent, recv_calls, response, split_server_id_string >>

\* socket.send_to(buf, addr) succeeds.
SendToOk ==
    /\ pc = "send"
    /\ sent' = Append(sent, RequestPacket)
    /\ pc' = "recv"
    /\ UNCHANGED << overflow_checks, bind_failed, recv_calls, response,
                    split_server_id_string, result >>

\* socket.send_to(buf, addr) fails: the call returns.
SendToErr ==
    /\ pc = "send"
    /\ result' = Err(CantSendTo)
    /\ pc' = "done"
    /\ UNCHANGED << overflow_checks, bind_failed, sent, recv_calls, response,
                    split_server_id_string >>

\* What recv_from leaves in the buffer: the datagram, cut to the buffer's size.
Received(datagram) ==
    IF Len(datagram) > ResponseBufferLen
    THEN SubSeq(datagram, 1, ResponseBufferLen)
    ELSE datagram

\* The tokens the decoder split, when it got as far as splitting.
TokensSeen(resp, checks) ==
    IF FirstOutOfBounds(Len(resp)) >= 0 THEN << >>
    ELSE LET end == SliceEnd(server_id_string_len(resp), checks)
         IN IF SlicePanic(end, Len(resp)) # "" THEN << >>
            ELSE SplitServerIdString(
                     Utf8Lossy(SubSeq(resp, ServerIdStringOffset + 1, end.lo)))

\* socket.recv_from(&mut response) returns a datagram, and the rest of the
\* function decodes it.
RecvFromOk ==
    /\ pc = "recv"
    /\ \E datagram \in Datagrams :
           /\ response' = Received(datagram)
           /\ result' = Decode(Received(datagram), overflow_checks)
           /\ split_server_id_string' = TokensSeen(Received(datagram), overflow_checks)
    /\ recv_calls' = recv_calls + 1
    /\ pc' = "done"
    /\ UNCHANGED << overflow_checks, bind_failed, sent >>

\* socket.recv_from(&mut response) fails: .expect("ddd") panics.
RecvFromErr ==
    /\ pc = "recv"
    /\ recv_calls' = recv_calls + 1
    /\ result' = Panic("ddd")
    /\ pc' = "done"
    /\ UNCHANGED << overflow_checks, bind_failed, sent, response, split_server_id_string >>

Next ==
    \/ BindOk
    \/ BindErr
    \/ SendToOk
    \/ SendToErr
    \/ RecvFromOk
    \/ RecvFromErr

Spec == Init /\ [][Next]_vars

\* ------------------------------------------------ vocabulary of the claims

\* The call got a reply datagram and ran the decoder on it.
GotReply == pc = "done" /\ recv_calls = 1 /\ result.panic # "ddd"

\* The decoder got past the fixed layout and the slice, to the split.
ReachedSplit == GotReply /\ result.kind \in { "Ok", "Err" }

\* Bytes 33..34 of a reply as a signed 16-bit big-endian number.
DeclaredLen(resp) ==
    LET u == resp[34] * 256 + resp[35]
    IN IF u >= 32768 THEN u - 65536 ELSE u

\* The declared length does not fit the bytes received after the header.
DeclaredLenMisfits(resp) ==
    DeclaredLen(resp) < 0 \/ DeclaredLen(resp) > Len(resp) - 35

\* The server id string of a reply whose declared length fits.
RawOf(resp) == Utf8Lossy(SubSeq(resp, 36, 35 + DeclaredLen(resp)))

RECURSIVE Without(_, _)
\* s with every occurrence of c removed.
Without(s, c) ==
    IF s = << >> THEN << >>
    ELSE IF Head(s) = c THEN Without(Tail(s), c)
    ELSE << Head(s) >> \o Without(Tail(s), c)

RECURSIVE StripZeros(_)
StripZeros(ds) ==
    IF Len(ds) > 1 /\ Head(ds) = Digit0 THEN StripZeros(Tail(ds)) ELSE ds

RECURSIVE DecimalValue(_)
\* The number a string of at most 9 digits denotes.
DecimalValue(ds) ==
    IF ds = << >> THEN 0
    ELSE DecimalValue(SubSeq(ds, 1, Len(ds) - 1)) * 10 + (ds[Len(ds)] - Digit0)

\* The text after the sign a numeral of the type may start with.
Unsigned(s, ty) ==
    IF s # << >> /\ (s[1] = PlusSign \/ (s[1] = MinusSign /\ ty.signed))
    THEN Tail(s)
    ELSE s

\* The text is a decimal numeral of a value of the integer type: an optional
\* sign, one digit or more, and a value between ty.min and ty.max.
Denotes(s, ty) ==
    LET body == Unsigned(s, ty)
        neg == s # << >> /\ s[1] = MinusSign
        sig == StripZeros(body)
        q == DecimalValue(SubSeq(sig, 1, 9))
        d == sig[10] - Digit0
        m == -(ty.min + 1)
    IN /\ body # << >>
       /\ \A i \in 1..Len(body) : IsDigit(body[i])
       /\ CASE Len(sig) <= 9 ->
                 IF neg THEN -DecimalValue(sig) >= ty.min ELSE DecimalValue(sig) <= ty.max
            [] Len(sig) = 10 ->
                 IF neg
                 THEN q < m \div 10 \/ (q = m \div 10 /\ d <= (m % 10) + 1)
                 ELSE q < ty.max \div 10 \/ (q = ty.max \div 10 /\ d <= ty.max % 10)
            [] OTHER -> FALSE

\* The optional numeric fields, by their index in the server id string: the
\* type, the default, the error code and the value in an Ok result.
NumericOptional == { 4, 5, 9, 10, 11 }

TypeOf(i) ==
    CASE i = 4 -> I32Type [] i = 5 -> I32Type [] i = 9 -> U8Type
      [] i = 10 -> U16Type [] i = 11 -> U16Type

DocumentedDefault(i) ==
    CASE i = 4 -> -1 [] i = 5 -> -1 [] i = 9 -> 0 [] i = 10 -> 19132 [] i = 11 -> 19132

ErrorOf(i) ==
    CASE i = 4 -> "CantParsePlayerCount" [] i = 5 -> "CantParsePlayerMaxCount"
      [] i = 9 -> "CantParseGameModeNum" [] i = 10 -> "CantParsePort4"
      [] i = 11 -> "CantParsePort6"

ValueIn(parsed, i) ==
    CASE i = 4 -> parsed.player_count [] i = 5 -> parsed.max_player_count
      [] i = 9 -> parsed.gamemode_numeric [] i = 10 -> parsed.port_v4
      [] i = 11 -> parsed.port_v6

\* Token i (0-based, as in the code) of the split server id string.
Token(i) == split_server_id_string[i + 1]
TokenCount == Len(split_server_id_string)

\* The call got to the field parser with the four required tokens and a
\* protocol_version that is a 16-bit signed numeral.
RequiredFieldsValid ==
    ReachedSplit /\ TokenCount >= 4 /\ Denotes(Token(2), I16Type)

\* Token i is present and is no numeral of its field's type.
Malformed(i) == TokenCount > i /\ ~Denotes(Token(i), TypeOf(i))

OkServerIdString == result.pong.server_id_string_parsed

SixTokenExample ==
    Str(<< "M", "C", "P", "E", ";", "M", "y", " ", "S", "e", "r", "v", "e", "r", ";",
           "6", "1", "8", ";", "1", ".", "2", "0", ".", "4", "0", ";", "5", ";", "2", "0" >>)

\* ------------------------------------------------------------------ claims

\* C1 (as claimed): a reply of fewer than 35 bytes makes the call return an
\* error value; it does not panic.
C1_ShortReplyReturnsError ==
    (GotReply /\ Len(response) < 35) => result.kind = "Err"

\* C2 (as claimed): a reply of at least 35 bytes whose declared string length
\* is negative or larger than the bytes that follow makes the call return an
\* error value; it does not panic.
C2_MisfittingLengthReturnsError ==
    (GotReply /\ Len(response) >= 35 /\ DeclaredLenMisfits(response))
        => result.kind = "Err"

\* C3: with the required fields valid, an absent optional numeric field takes
\* its documented default and clears server_id_string_parsed_ok in the Ok
\* result, and the first present-but-malformed optional numeric field, in
\* index order, makes the call return that field's error code.
C3_AbsentDefaultsMalformedFails ==
    RequiredFieldsValid =>
        \A i \in NumericOptional :
            /\ (TokenCount <= i /\ result.kind = "Ok") =>
                   /\ ValueIn(OkServerIdString, i) = DocumentedDefault(i)
                   /\ result.pong.server_id_string_parsed_ok = FALSE
            /\ (Malformed(i) /\ \A j \in NumericOptional : j < i => ~Malformed(j)) =>
                   /\ result.kind = "Err"
                   /\ result.code = ErrorOf(i)
            /\ (TokenCount > i /\ result.kind = "Ok") =>
                   /\ Denotes(Token(i), TypeOf(i))
                   /\ ParseInt(Token(i), TypeOf(i)).v = ValueIn(OkServerIdString, i)

\* C3 witness: the player count is present and malformed, a later field is
\* absent, and the call returned CantParsePlayerCount.
C3_Witness ==
    /\ RequiredFieldsValid
    /\ TokenCount = 6
    /\ Malformed(4)
    /\ result.kind = "Err"
    /\ result.code = CantParsePlayerCount

\* C4 (as claimed): exactly 4 valid tokens parse to the defaults with
\* server_id_string_parsed_ok = true.
C4_FourTokensParsedOk ==
    (RequiredFieldsValid /\ TokenCount = 4) =>
        /\ result.kind = "Ok"
        /\ result.pong.server_id_string_parsed_ok = TRUE
        /\ OkServerIdString.player_count = -1
        /\ OkServerIdString.max_player_count = -1
        /\ OkServerIdString.gamemode = DefaultGamemode
        /\ OkServerIdString.gamemode_numeric = 0
        /\ OkServerIdString.port_v4 = 19132
        /\ OkServerIdString.port_v6 = 19132

\* C4 (amended): exactly 4 valid tokens parse to the defaults with
\* server_id_string_parsed_ok = false.
C4_FourTokensDefaultsNotOk ==
    (RequiredFieldsValid /\ TokenCount = 4) =>
        /\ result.kind = "Ok"
        /\ result.pong.server_id_string_parsed_ok = FALSE
        /\ OkServerIdString.player_count = -1
        /\ OkServerIdString.max_player_count = -1
        /\ OkServerIdString.gamemode = DefaultGamemode
        /\ OkServerIdString.gamemode_numeric = 0
        /\ OkServerIdString.port_v4 = 19132
        /\ OkServerIdString.port_v6 = 19132

\* C4 witness: a reply with exactly 4 valid tokens was decoded.
C4_Witness ==
    /\ RequiredFieldsValid
    /\ TokenCount = 4
    /\ result.kind = "Ok"
    /\ OkServerIdString.protocol_version = 618

\* C5: in an Ok result server_id_string_parsed_ok is true exactly when the
\* server id string had at least 12 non-empty tokens; the 6-token example
\* gives false.
C5_ParsedOkIffTwelveTokens ==
    (GotReply /\ result.kind = "Ok") =>
        /\ result.pong.server_id_string_parsed_ok <=> TokenCount >= 12
        /\ result.pong.server_id_string_raw = SixTokenExample =>
               result.pong.server_id_string_parsed_ok = FALSE

\* C5 witness: 11 tokens, so that only port_v6 is absent, and the flag is false.
C5_Witness ==
    /\ GotReply
    /\ result.kind = "Ok"
    /\ TokenCount = 11
    /\ result.pong.server_id_string_parsed_ok = FALSE

\* C6: the split keeps the non-empty pieces in order and drops the empty
\* ones; fewer than 4 tokens give ServerIdStringTooSmall whatever the tokens
\* are; an Ok result has the four required fields from the tokens.
C6_SplitAndTooSmall ==
    ReachedSplit =>
        /\ \A i \in 1..TokenCount :
               /\ split_server_id_string[i] # << >>
               /\ \A k \in 1..Len(split_server_id_string[i]) :
                      split_server_id_string[i][k] # Semicolon
        /\ Join(split_server_id_string, << >>) = Without(RawOf(response), Semicolon)
        /\ LET pieces == SplitKeepingEmpty(RawOf(response))
           IN TokenCount = Len(pieces) - Cardinality({ i \in 1..Len(pieces) : pieces[i] = << >> })
        /\ RawOf(response) = Str(<< "a", ";", ";", "b", ";", "c" >>) =>
               split_server_id_string = << Str(<< "a" >>), Str(<< "b" >>), Str(<< "c" >>) >>
        /\ TokenCount < 4 => (result.kind = "Err" /\ result.code = ServerIdStringTooSmall)
        /\ TokenCount >= 4 => result.code # ServerIdStringTooSmall
        /\ result.kind = "Ok" =>
               /\ OkServerIdString.edition = Token(0)
               /\ OkServerIdString.motd = Token(1)
               /\ OkServerIdString.version_name = Token(3)
               /\ Denotes(Token(2), I16Type)

\* C6 witness: three tokens between empty pieces, the third no number, and
\* the call returned ServerIdStringTooSmall.
C6_Witness ==
    /\ ReachedSplit
    /\ TokenCount = 3
    /\ Len(SplitKeepingEmpty(RawOf(response))) > 3
    /\ ~Denotes(Token(2), I16Type)
    /\ result.code = ServerIdStringTooSmall

\* C7: with at least 4 tokens, a protocol_version token that is no 16-bit
\* signed numeral gives CantParseProtocolVersion, whatever follows it; and an
\* Ok result carries the value the numeral denotes.
C7_BadProtocolVersionFails ==
    (ReachedSplit /\ TokenCount >= 4) =>
        /\ ~Denotes(Token(2), I16Type) =>
               (result.kind = "Err" /\ result.code = CantParseProtocolVersion)
        /\ result.kind = "Ok" =>
               /\ Denotes(Token(2), I16Type)
               /\ Token(2) = Str(<< "6", "1", "8" >>) =>
                      OkServerIdString.protocol_version = 618
               /\ Token(2) = Str(<< "-", "3", "2", "7", "6", "8" >>) =>
                      OkServerIdString.protocol_version = -32768

\* C7 witness: protocol_version is 32768, one past the range, all 12 fields
\* are present, the player count is malformed too, and the call returned
\* CantParseProtocolVersion.
C7_Witness ==
    /\ ReachedSplit
    /\ TokenCount >= 12
    /\ Token(2) = Str(<< "3", "2", "7", "6", "8" >>)
    /\ Malformed(4)
    /\ result.code = CantParseProtocolVersion

C9_BindFailureReturnsCantBind ==
    /\ (pc = "done" /\ bind_failed) =>
           (result.kind = "Err" /\ result.code = CantBind /\ recv_calls = 0)
    /\ (pc = "done" /\ result.code = CantSendTo) => (~bind_failed /\ recv_calls = 0)

\* C10: an Ok result has id = byte 0, time_since_start and server_guid the
\* big-endian two's complement of bytes 1..8 and 9..16, server_id_string_len
\* the signed big-endian bytes 33..34, and the constant magic; and whether and
\* how the call fails does not depend on bytes 0..32.
C10_HeaderDecoding ==
    /\ (GotReply /\ result.kind = "Ok") =>
           /\ result.pong.id = response[1]
           /\ result.pong.time_since_start = SubSeq(response, 2, 9)
           /\ result.pong.server_guid = SubSeq(response, 10, 17)
           /\ I64IsNegative(result.pong.time_since_start) <=> response[2] >= 128
           /\ I64IsNegative(result.pong.server_guid) <=> response[10] >= 128
           /\ SubSeq(response, 2, 9) = << 0, 0, 0, 0, 0, 0, 1, 0 >> =>
                  I64ToInt(result.pong.time_since_start) = 256
           /\ SubSeq(response, 2, 9) = << 255, 255, 255, 255, 255, 255, 254, 12 >> =>
                  I64ToInt(result.pong.time_since_start) = -500
           /\ SubSeq(response, 10, 17) = << 255, 255, 255, 255, 255, 255, 255, 255 >> =>
                  I64ToInt(result.pong.server_guid) = -1
           /\ result.pong.server_id_string_len = DeclaredLen(response)
           /\ result.pong.magic =
                  << 0, 255, 255, 0, 254, 254, 254, 254, 253, 253, 253, 253, 18, 52, 86, 120 >>
    /\ (GotReply /\ Len(response) >= 35) =>
           LET usual == Decode(UsualHeader \o SubSeq(response, 34, Len(response)),
                               overflow_checks)
           IN result.kind = usual.kind /\ result.code = usual.code

\* C10 witness: an Ok result for a reply whose id is not 0x1c, whose magic is
\* not the constant and whose time has the top bit set.
C10_Witness ==
    /\ GotReply
    /\ result.kind = "Ok"
    /\ response[1] # 28
    /\ SubSeq(response, 18, 33) # MAGIC
    /\ I64IsNegative(result.pong.time_since_start)

====
